---- MODULE Spec2Model ----
(***************************************************************************)
(* PV system sizing and design (solarspec/generators/designer.py).         *)
(*                                                                         *)
(* Python floats are modelled as exact rationals <<n, d>> in lowest terms  *)
(* with d > 0.  round() and the "%.1f"/"%.0f" formats round to the nearest *)
(* decimal; on an exact decimal tie the binary value of the float decides  *)
(* the direction, so a tie yields both neighbours.  The one place where    *)
(* binary rounding error changes an integer result on the modelled inputs  *)
(* (the ceil of kWp * 1000 / power_wp) is modelled by FloatQuotientExcess. *)
(***************************************************************************)
EXTENDS Integers, Sequences, FiniteSets, TLC

VARIABLES
    catalog,                 \* contents of data/products.json (or the empty catalog)
    pc,                      \* position inside the running call
    analysis,                \* argument: AnalysisResult
    annual_consumption_kwh,  \* argument
    roof_area_m2,            \* argument
    roof_tilt,               \* argument (None or degrees)
    roof_azimuth,            \* argument (None or degrees)
    settings,                \* argument, after `settings or Settings()`
    module,                  \* local: the selected PVModule
    notes,                   \* local: list of advisory notes
    prod_per_kwp,            \* local
    orient,                  \* locals of the tilt/azimuth correction
    sizing,                  \* locals of the sizing block
    selfcons,                \* locals of the self-consumption block
    inverter,                \* local: index of the selected inverter in the catalog, 0 = None
    econ,                    \* locals of the economic analysis
    design,                  \* the returned SystemDesign d as <<d>> (None until returned)
    error,                   \* the exception that left the call (None if none)
    sel,                     \* a direct _select_inverter(system_kwp) call and its result
    narr,                    \* a generate_narrative(design, settings) call: arguments, locals, result
    parsed,                  \* a _parse_sections(text) call and its result
    geo,                     \* a get_climate_zone / get_seismic_zone call pair and its results
    http,                    \* a POST request to the HTTP API and the answer of its handler
    solarspec                \* a SolarSpec instance (self.settings) and the method call made on it

\* the frames of the calls outside the designer
outer == <<narr, parsed, geo, http, solarspec>>

vars == <<catalog, pc, analysis, annual_consumption_kwh, roof_area_m2, roof_tilt,
          roof_azimuth, settings, module, notes, prod_per_kwp, orient, sizing,
          selfcons, inverter, econ, design, error, sel, narr, parsed, geo, http,
          solarspec>>

\* Python None, for an optional float or an optional object
None == <<>>

-----------------------------------------------------------------------------
(* Float arithmetic as exact rationals.                                    *)

Abs(x) == IF x < 0 THEN -x ELSE x

RECURSIVE GCD(_, _)
GCD(a, b) == IF b = 0 THEN a ELSE GCD(b, a % b)

\* the rational n/d (d > 0) in lowest terms
R(n, d) == LET g == GCD(Abs(n), d) IN <<n \div g, d \div g>>

Zero == <<0, 1>>
One == <<1, 1>>

FNeg(a) == <<-a[1], a[2]>>

FAbs(a) == <<Abs(a[1]), a[2]>>

FAdd(a, b) ==
    LET g == GCD(a[2], b[2])
    IN  R(a[1] * (b[2] \div g) + b[1] * (a[2] \div g), (a[2] \div g) * b[2])

FSub(a, b) == FAdd(a, FNeg(b))

FMul(a, b) ==
    LET g1 == GCD(Abs(a[1]), b[2])
        g2 == GCD(Abs(b[1]), a[2])
    IN  R((a[1] \div g1) * (b[1] \div g2), (a[2] \div g2) * (b[2] \div g1))

\* a / b for b # 0 (Python raises ZeroDivisionError for b = 0: see the callers)
FDiv(a, b) ==
    IF b[1] > 0 THEN FMul(a, <<b[2], b[1]>>) ELSE FMul(a, <<-b[2], -b[1]>>)

FLt(a, b) == a[1] * b[2] < b[1] * a[2]

FLe(a, b) == a[1] * b[2] <= b[1] * a[2]

FMax(a, b) == IF FLt(a, b) THEN b ELSE a

FMin(a, b) == IF FLt(b, a) THEN b ELSE a

\* math.floor and math.ceil
Floor(a) == a[1] \div a[2]

Ceil(a) == -((-a[1]) \div a[2])

Pow10(k) == IF k = 0 THEN 1 ELSE IF k = 1 THEN 10 ELSE IF k = 2 THEN 100
            ELSE IF k = 3 THEN 1000 ELSE 10000

\* mutant: the value is truncated, int(a * 10^k) / 10^k, instead of rounded
Round_Truncated(a, k) ==
    LET p  == Pow10(k) \div GCD(Pow10(k), a[2])
        d  == a[2] \div GCD(Pow10(k), a[2])
        lo == (a[1] \div d) * p + ((a[1] % d) * p) \div d
    IN  {R(lo, Pow10(k))}

\* round(a, k) and format(a, ".kf"): the nearest multiples of 10^-k (both on a tie).
\* floor(n * 10^k / d) is computed as (n div d) * 10^k + ((n mod d) * 10^k) div d
Round(a, k) ==
    LET p  == Pow10(k) \div GCD(Pow10(k), a[2])
        d  == a[2] \div GCD(Pow10(k), a[2])
        lo == (a[1] \div d) * p + ((a[1] % d) * p) \div d
        r2 == 2 * (((a[1] % d) * p) % d)
    IN  IF r2 < d THEN {R(lo, Pow10(k))}
        ELSE IF r2 > d THEN {R(lo + 1, Pow10(k))}
        ELSE {R(lo, Pow10(k)), R(lo + 1, Pow10(k))}

-----------------------------------------------------------------------------
(* The product catalog: data/products.json as read by _load_product_catalog *)

\* the catalog returned when products.json does not exist
EmptyCatalog == [modules |-> <<>>, inverters |-> <<>>]

\* a PVModule; warranty_years and degradation_rate at the defaults of the class
Mod(man, mdl, wp, eff, area) ==
    [manufacturer |-> man, model |-> mdl, power_wp |-> wp, efficiency |-> eff,
     area_m2 |-> area, warranty_years |-> 25, degradation_rate |-> <<1, 2>>]

Inv(man, mdl, kw, dc) ==
    [manufacturer |-> man, model |-> mdl, power_kw |-> kw, max_dc_power_kw |-> dc]

\* the hardcoded fallback module of _default_module
GenericModule ==
    [Mod("Generic", "Mono PERC 440W", <<440, 1>>, <<45, 2>>, <<39, 20>>)
        EXCEPT !.warranty_years = 25, !.degradation_rate = <<2, 5>>]

\* products.json files the process may find (input data)
ResidentialCatalog ==
    [modules   |-> << Mod("SunA", "A400", <<400, 1>>, <<43, 2>>, <<19, 10>>),
                      Mod("SunB", "B445", <<445, 1>>, <<114, 5>>, <<2, 1>>),
                      Mod("SunC", "C430", <<430, 1>>, <<114, 5>>, <<39, 20>>) >>,
     inverters |-> << Inv("InvA", "3.0", <<3, 1>>, <<9, 2>>),
                      Inv("InvA", "6.0", <<6, 1>>, <<9, 1>>),
                      Inv("InvB", "4.5", <<9, 2>>, <<27, 4>>),
                      Inv("InvB", "5.5", <<11, 2>>, <<33, 4>>),
                      Inv("InvA", "10.0", <<10, 1>>, <<15, 1>>) >>]

CommercialCatalog ==
    [modules   |-> << Mod("SunD", "D500", <<500, 1>>, <<113, 5>>, <<2, 1>>) >>,
     inverters |-> << Inv("InvC", "20", <<20, 1>>, <<30, 1>>),
                      Inv("InvC", "100", <<100, 1>>, <<150, 1>>),
                      Inv("InvC", "100b", <<100, 1>>, <<150, 1>>) >>]

InverterOnlyCatalog ==
    [modules   |-> <<>>,
     inverters |-> << Inv("InvA", "3.0", <<3, 1>>, <<9, 2>>),
                      Inv("InvA", "6.0", <<6, 1>>, <<9, 1>>) >>]

Catalogs == {EmptyCatalog, ResidentialCatalog, CommercialCatalog, InverterOnlyCatalog}

\* max(seq, key=...): the first element with the largest key
RECURSIVE FirstMax(_, _, _, _)
FirstMax(keys, i, best, n) ==
    IF i > n THEN best
    ELSE FirstMax(keys, i + 1, IF FLt(keys[best], keys[i]) THEN i ELSE best, n)

ArgMax(keys) == FirstMax(keys, 2, 1, Len(keys))

\* mutant: on equal efficiencies the last entry wins
DefaultModule_LastMax(cat) ==
    IF cat.modules # <<>>
    THEN LET m == cat.modules
             last == CHOOSE i \in 1..Len(m) :
                        /\ \A j \in 1..Len(m) : FLe(m[j].efficiency, m[i].efficiency)
                        /\ \A j \in (i + 1)..Len(m) : m[j].efficiency # m[i].efficiency
         IN  m[last]
    ELSE GenericModule

DefaultModule(cat) ==
    IF cat.modules # <<>>
    THEN cat.modules[ArgMax([i \in 1..Len(cat.modules) |-> cat.modules[i].efficiency])]
    ELSE GenericModule

\* score of one inverter in the loop of _select_inverter
InverterSurvives(inv, system_kwp) ==
    ~ FLt(inv.max_dc_power_kw, FMul(system_kwp, <<4, 5>>))

\* mutant: the undersize penalty is forgotten
InverterScore_NoPenalty(inv, system_kwp) == FAbs(FSub(inv.power_kw, system_kwp))

InverterScore(inv, system_kwp) ==
    FAdd(FAbs(FSub(inv.power_kw, system_kwp)),
         IF FLe(FMul(system_kwp, <<9, 10>>), inv.power_kw) THEN Zero ELSE <<10, 1>>)

\* float("inf"), the initial best_score
Inf == <<>>

\* the for loop of _select_inverter: best is an index (0 = None)
RECURSIVE InverterLoop(_, _, _, _, _)
InverterLoop(inverters, system_kwp, i, best, best_score) ==
    IF i > Len(inverters) THEN best
    ELSE IF ~ InverterSurvives(inverters[i], system_kwp)
         THEN InverterLoop(inverters, system_kwp, i + 1, best, best_score)
    ELSE LET score == InverterScore(inverters[i], system_kwp)
         IN  IF best_score = Inf \/ FLt(score, best_score)
             THEN InverterLoop(inverters, system_kwp, i + 1, i, score)
             ELSE InverterLoop(inverters, system_kwp, i + 1, best, best_score)

\* mutant: the fallback to the largest inverter is forgotten
SelectInverter_NoFallback(cat, system_kwp) ==
    IF cat.inverters = <<>> THEN 0
    ELSE InverterLoop(cat.inverters, system_kwp, 1, 0, Inf)

\* index of the selected inverter in the catalog, 0 for None
SelectInverter(cat, system_kwp) ==
    IF cat.inverters = <<>> THEN 0
    ELSE LET best == InverterLoop(cat.inverters, system_kwp, 1, 0, Inf)
         IN  IF best = 0
             THEN ArgMax([i \in 1..Len(cat.inverters) |-> cat.inverters[i].power_kw])
             ELSE best

-----------------------------------------------------------------------------
(* The computations of design_system, in the order of the code.            *)

\* Settings(): the defaults of solarspec/config.py
DefaultSettings ==
    [default_electricity_price |-> <<1, 4>>, default_cost_per_kwp |-> <<1500, 1>>,
     default_performance_ratio |-> <<4, 5>>]

\* Python `x or y` on an optional float: None and 0.0 are both falsy
PyOr(x, y) == IF x = None \/ x = Zero THEN y ELSE x

\* mutant: a production figure of exactly 0 is taken as measured
ProductionEstimated_Strict(an) == FLt(an.solar_data.annual_production_per_kwp, Zero)

\* lines 112-115
ProductionEstimated(an) == FLe(an.solar_data.annual_production_per_kwp, Zero)

ProdPerKwp(an, st) ==
    IF ProductionEstimated(an)
    THEN FMul(an.solar_data.annual_irradiation, st.default_performance_ratio)
    ELSE an.solar_data.annual_production_per_kwp

\* lines 118-127
TiltDiff(rt, an) ==
    FAbs(FSub(PyOr(rt, an.solar_data.optimal_tilt), an.solar_data.optimal_tilt))

AzimuthDiff(ra, an) ==
    FAbs(FSub(PyOr(ra, an.solar_data.optimal_azimuth), an.solar_data.optimal_azimuth))

\* mutant: the floor of 0.7 is forgotten
CorrectionFactor_NoFloor(rt, ra, an) ==
    IF rt # None \/ ra # None
    THEN FSub(FSub(One, FMul(TiltDiff(rt, an), <<3, 1000>>)),
              FMul(AzimuthDiff(ra, an), <<2, 1000>>))
    ELSE One

CorrectionFactor(rt, ra, an) ==
    IF rt # None \/ ra # None
    THEN FMax(<<7, 10>>,
              FSub(FSub(One, FMul(TiltDiff(rt, an), <<3, 1000>>)),
                   FMul(AzimuthDiff(ra, an), <<2, 1000>>)))
    ELSE One

OrientationNoted(rt, ra, an) ==
    (rt # None \/ ra # None) /\ FLt(CorrectionFactor(rt, ra, an), <<17, 20>>)

\* line 129
EffectiveProdPerKwp(an, st, rt, ra) ==
    FMul(ProdPerKwp(an, st), CorrectionFactor(rt, ra, an))

\* line 132 (the divisor is nonzero: see Sizing)
TargetKwp(consumption, eff) == FDiv(FMul(consumption, <<9, 10>>), eff)

\* mutant: the operands of the division are swapped
MaxPanelsByArea_Swapped(roof, m) == Floor(FDiv(m.area_m2, roof))

\* lines 135-136
MaxPanelsByArea(roof, m) == Floor(FDiv(roof, m.area_m2))

MaxKwpByArea(roof, m) ==
    FDiv(FMul(<<MaxPanelsByArea(roof, m), 1>>, m.power_wp), <<1000, 1>>)

\* mutant: >= instead of >
RoofClamps_Inclusive(target, roof, m) == FLe(MaxKwpByArea(roof, m), target)

\* line 138
RoofClamps(target, roof, m) == FLt(MaxKwpByArea(roof, m), target)

ClampedTarget(target, roof, m) ==
    IF RoofClamps(target, roof, m) THEN MaxKwpByArea(roof, m) ELSE target

\* <<power_wp, n>> for which the double (n * power_wp / 1000) * 1000 / power_wp is
\* one ulp above n, so that math.ceil of it is n + 1 (modules of the catalogs above)
FloatQuotientExcess ==
    { <<440, 37>>, <<440, 74>>, <<440, 147>>, <<440, 148>>,
      <<445, 145>>, <<445, 147>>, <<400, 161>>, <<430, 151>> }

\* line 146: math.ceil(target_kwp * 1000 / module.power_wp)
CeilPanels(target, m) ==
    LET q == FDiv(FMul(target, <<1000, 1>>), m.power_wp)
    IN  Ceil(q) + (IF q[2] = 1 /\ m.power_wp[2] = 1
                      /\ <<m.power_wp[1], q[1]>> \in FloatQuotientExcess
                   THEN 1 ELSE 0)

\* mutant: without max(1, ...)
NumPanels_NoFloor(target, m) == CeilPanels(target, m)

NumPanels(target, m) ==
    LET c == CeilPanels(target, m) IN IF c < 1 THEN 1 ELSE c

\* mutant: the panel count is left out
ActualKwp_OnePanel(n, m) == FDiv(m.power_wp, <<1000, 1>>)

\* line 147
ActualKwp(n, m) == FDiv(FMul(<<n, 1>>, m.power_wp), <<1000, 1>>)

\* lines 154-162
CoverageRatio(production, consumption) ==
    IF FLt(Zero, consumption) THEN FDiv(production, consumption) ELSE One

\* mutant: the 0.8 bound is exclusive
SelfConsumptionRate_Strict(ratio) ==
    IF FLe(ratio, <<1, 2>>) THEN <<7, 10>>
    ELSE IF FLt(ratio, <<4, 5>>) THEN <<11, 20>>
    ELSE IF FLe(ratio, One) THEN <<2, 5>>
    ELSE <<3, 10>>

SelfConsumptionRate(ratio) ==
    IF FLe(ratio, <<1, 2>>) THEN <<7, 10>>
    ELSE IF FLe(ratio, <<4, 5>>) THEN <<11, 20>>
    ELSE IF FLe(ratio, One) THEN <<2, 5>>
    ELSE <<3, 10>>

\* lines 175-192
SSP == "SSP (Scambio Sul Posto) + Detrazione 50%"
RID == "RID (Ritiro Dedicato)"

IncentiveType(actual_kwp) == IF FLe(actual_kwp, <<500, 1>>) THEN SSP ELSE RID

\* mutant: the 20 kWp bound is exclusive
FeedInTariff_Strict(actual_kwp) ==
    IF FLt(actual_kwp, <<20, 1>>) THEN <<3, 50>> ELSE <<1, 25>>

FeedInTariff(actual_kwp) ==
    IF FLe(actual_kwp, <<20, 1>>) THEN <<3, 50>> ELSE <<1, 25>>

\* mutant: the cap of 96000 EUR is forgotten
DeductionTotal_Uncapped(actual_kwp, total_cost) ==
    IF FLe(actual_kwp, <<500, 1>>) THEN FMul(total_cost, <<1, 2>>) ELSE Zero

DeductionTotal(actual_kwp, total_cost) ==
    IF FLe(actual_kwp, <<500, 1>>)
    THEN FMin(FMul(total_cost, <<1, 2>>), <<96000, 1>>)
    ELSE Zero

AnnualDeduction(actual_kwp, total_cost) ==
    FDiv(DeductionTotal(actual_kwp, total_cost), <<10, 1>>)

\* mutant: the deduction is not taken out of the yearly savings
Payback_GrossSavings(effective_cost, annual_savings, annual_deduction) ==
    IF FLt(Zero, annual_savings) THEN FDiv(effective_cost, annual_savings) ELSE <<99, 1>>

\* line 202
Payback(effective_cost, annual_savings, annual_deduction) ==
    IF FLt(Zero, FSub(annual_savings, annual_deduction))
    THEN FDiv(effective_cost, FSub(annual_savings, annual_deduction))
    ELSE <<99, 1>>

\* line 204
Lcoe(effective_cost, production) ==
    IF FLt(Zero, production)
    THEN FDiv(effective_cost, FMul(production, <<25, 1>>))
    ELSE Zero

-----------------------------------------------------------------------------
(* Strings (solarspec/core/narrative.py).  A string is a sequence of atoms: *)
(* words, " ", ":" and "\n".  No word of the texts below is a proper       *)
(* prefix of another, so str.startswith is the prefix test on atoms.       *)

Whitespace == {" ", "\n"}

\* str.upper() on one atom
UpperAtom(a) ==
    CASE a = "premessa"        -> "PREMESSA"
      [] a = "Conclusioni"     -> "CONCLUSIONI"
      [] a = "dimensionamento" -> "DIMENSIONAMENTO"
      [] a = "Testo"           -> "TESTO"
      [] a = "finali"          -> "FINALI"
      [] OTHER                 -> a

Upper(s) == [i \in DOMAIN s |-> UpperAtom(s[i])]

\* str.lstrip(chars) and str.rstrip(chars)
RECURSIVE LStripOf(_, _)
LStripOf(s, chars) ==
    IF s # <<>> /\ Head(s) \in chars THEN LStripOf(Tail(s), chars) ELSE s

RECURSIVE RStripOf(_, _)
RStripOf(s, chars) ==
    IF s # <<>> /\ s[Len(s)] \in chars
    THEN RStripOf(SubSeq(s, 1, Len(s) - 1), chars)
    ELSE s

Strip(s) == LStripOf(RStripOf(s, Whitespace), Whitespace)

StartsWith(s, prefix) ==
    Len(s) >= Len(prefix) /\ SubSeq(s, 1, Len(prefix)) = prefix

\* text.split("\n"): the sequence of lines, [""] for the empty text
RECURSIVE SplitLines(_, _)
SplitLines(s, line) ==
    IF s = <<>> THEN <<line>>
    ELSE IF Head(s) = "\n" THEN <<line>> \o SplitLines(Tail(s), <<>>)
    ELSE SplitLines(Tail(s), Append(line, Head(s)))

\* "\n".join(lines)
RECURSIVE Join(_)
Join(lines) ==
    IF lines = <<>> THEN <<>>
    ELSE IF Len(lines) = 1 THEN lines[1]
    ELSE lines[1] \o <<"\n">> \o Join(Tail(lines))

\* section_map of _parse_sections, in the insertion order of the dict
SectionMap ==
    << << <<"PREMESSA">>, "premessa" >>,
       << <<"ANALISI", " ", "DEL", " ", "SITO">>, "analisi_sito" >>,
       << <<"RISORSA", " ", "SOLARE">>, "risorsa_solare" >>,
       << <<"DIMENSIONAMENTO">>, "dimensionamento" >>,
       << <<"DIMENSIONAMENTO", " ", "DELL'IMPIANTO">>, "dimensionamento" >>,
       << <<"ANALISI", " ", "ECONOMICA">>, "analisi_economica" >>,
       << <<"CONCLUSIONI">>, "conclusioni" >> >>

\* the inner for loop: index of the first header the line starts with, 0 if none
MatchedHeader(stripped) ==
    LET hits == { i \in DOMAIN SectionMap : StartsWith(Upper(stripped), SectionMap[i][1]) }
    IN  IF hits = {} THEN 0 ELSE CHOOSE i \in hits : \A j \in hits : i <= j

\* sections[key] = value
Put(sections, key, value) ==
    [k \in (DOMAIN sections) \cup {key} |-> IF k = key THEN value ELSE sections[k]]

\* current_key = None
NoKey == ""

\* "Save previous section" (lines 189-190) and "Save last section" (203-204)
SaveSection(sections, current_key, current_lines) ==
    IF current_key # NoKey /\ current_lines # <<>>
    THEN Put(sections, current_key, Strip(Join(current_lines)))
    ELSE sections

\* the loop over the lines, lines 182-206
RECURSIVE ParseLoop(_, _, _, _)
ParseLoop(lines, sections, current_key, current_lines) ==
    IF lines = <<>> THEN SaveSection(sections, current_key, current_lines)
    ELSE LET line     == Head(lines)
             stripped == Strip(line)
             m        == MatchedHeader(stripped)
         IN  IF m # 0
             THEN LET header == SectionMap[m][1]
                      rest   == LStripOf(LStripOf(SubSeq(stripped, Len(header) + 1,
                                                         Len(stripped)), {":"}),
                                         Whitespace)
                  IN  ParseLoop(Tail(lines),
                                SaveSection(sections, current_key, current_lines),
                                SectionMap[m][2],
                                IF rest # <<>> THEN <<rest>> ELSE <<>>)
             ELSE IF current_key # NoKey
             THEN ParseLoop(Tail(lines), sections, current_key,
                            Append(current_lines, RStripOf(line, Whitespace)))
             ELSE ParseLoop(Tail(lines), sections, current_key, current_lines)

\* _parse_sections(text): a dict as a function from its keys
ParseSections(text) == ParseLoop(SplitLines(text, <<>>), <<>>, NoKey, <<>>)

\* mutant: the key is not looked at
ApiKeyMissing_Never(key) == FALSE

\* line 132: `not settings.anthropic_api_key`
ApiKeyMissing(key) == key = ""

\* _build_narrative_prompt: the data of the design that the prompt quotes
BuildNarrativePrompt(d) ==
    [address |-> d.site.address,
     annual_irradiation |-> d.solar_data.annual_irradiation,
     system_size_kwp |-> d.system_size_kwp,
     num_panels |-> d.num_panels,
     module_info |-> IF d.module # None
                     THEN <<d.module[1].manufacturer, d.module[1].model>> ELSE <<>>,
     inverter_info |-> IF d.inverter # None
                       THEN <<d.inverter[1].manufacturer, d.inverter[1].model>> ELSE <<>>,
     economics_info |-> IF d.economics # None
                        THEN <<d.economics[1].total_cost_eur, d.economics[1].payback_years>>
                        ELSE <<>>,
     notes_info |-> d.notes]

\* lines 154-157: the texts of the text blocks, concatenated
RECURSIVE RawText(_)
RawText(content) ==
    IF content = <<>> THEN <<>>
    ELSE (IF Head(content).type = "text" THEN Head(content).text ELSE <<>>)
         \o RawText(Tail(content))

-----------------------------------------------------------------------------
(* Climate and seismic zones (solarspec/core/geo.py).                      *)

\* _REGION_CLIMATE_DEFAULTS
RegionClimateDefaults ==
    ("Sicilia" :> "B") @@ ("Sardegna" :> "C") @@ ("Calabria" :> "C") @@
    ("Puglia" :> "C") @@ ("Campania" :> "C") @@ ("Basilicata" :> "D") @@
    ("Molise" :> "D") @@ ("Abruzzo" :> "D") @@ ("Lazio" :> "D") @@
    ("Marche" :> "D") @@ ("Umbria" :> "E") @@ ("Toscana" :> "D") @@
    ("Emilia-Romagna" :> "E") @@ ("Liguria" :> "D") @@ ("Piemonte" :> "E") @@
    ("Valle d'Aosta" :> "F") @@ ("Lombardia" :> "E") @@ ("Trentino-Alto Adige" :> "F") @@
    ("Veneto" :> "E") @@ ("Friuli Venezia Giulia" :> "E")

\* _REGION_SEISMIC_DEFAULTS
RegionSeismicDefaults ==
    ("Calabria" :> 1) @@ ("Sicilia" :> 2) @@ ("Campania" :> 2) @@
    ("Basilicata" :> 1) @@ ("Friuli Venezia Giulia" :> 2) @@ ("Abruzzo" :> 2) @@
    ("Molise" :> 2) @@ ("Puglia" :> 3) @@ ("Umbria" :> 2) @@
    ("Marche" :> 2) @@ ("Lazio" :> 2) @@ ("Toscana" :> 2) @@
    ("Emilia-Romagna" :> 3) @@ ("Liguria" :> 3) @@ ("Piemonte" :> 3) @@
    ("Valle d'Aosta" :> 3) @@ ("Lombardia" :> 3) @@ ("Trentino-Alto Adige" :> 4) @@
    ("Veneto" :> 3) @@ ("Sardegna" :> 4)

\* get_climate_zone(municipality, region)
GetClimateZone(municipality, region) ==
    IF region \in DOMAIN RegionClimateDefaults THEN RegionClimateDefaults[region] ELSE ""

\* get_seismic_zone(municipality, region)
GetSeismicZone(municipality, region) ==
    IF region \in DOMAIN RegionSeismicDefaults THEN RegionSeismicDefaults[region] ELSE 0

\* SolarSpec.analyze, __init__.py lines 50-65: the zones are looked up with the
\* municipality alone, the region parameter is left at its default ""
Analyze(address, location, solar_data) ==
    [site |-> [address |-> address,
               municipality |-> location.municipality,
               region |-> location.region,
               climate_zone |-> GetClimateZone(location.municipality, ""),
               seismic_zone |-> GetSeismicZone(location.municipality, "")],
     solar_data |-> solar_data,
     warnings |-> <<>>]

-----------------------------------------------------------------------------
(* The HTTP API (solarspec/api/__init__.py).                               *)

Endpoints ==
    { "/api/analyze", "/api/design", "/api/generate", "/api/narrative", "/api/preview" }

\* the steps inside the try block of each handler, in order
Pipeline(endpoint) ==
    CASE endpoint = "/api/analyze"   -> <<"geocode", "solar">>
      [] endpoint = "/api/design"    -> <<"geocode", "solar", "design">>
      [] endpoint = "/api/generate"  -> <<"geocode", "solar", "design", "generate">>
      [] endpoint = "/api/narrative" -> <<"geocode", "solar", "design", "narrative">>
      [] endpoint = "/api/preview"   ->
             <<"geocode", "solar", "design", "narrative", "html">>

NoException == ""

\* the exception classes that `except ValueError` catches: ValueError and its
\* subclasses (json.JSONDecodeError, pydantic's ValidationError)
ValueErrors == { "ValueError", "JSONDecodeError", "ValidationError" }

\* the exception one step raises (NoException if it returns), for a request
\* req and the behaviour env of what the step relies on
StepRaises(step, req, env) ==
    CASE step = "geocode" ->
             IF env.geocoder = "not_found" THEN "ValueError"
             ELSE IF env.geocoder = "http_error" THEN "HTTPStatusError"
             ELSE IF env.geocoder = "bad_json" THEN "JSONDecodeError"
             ELSE NoException
      [] step = "solar" ->
             IF env.pvgis = "http_error" THEN "HTTPStatusError" ELSE NoException
      [] step = "design" ->
             IF env.sizing = "zero_division" THEN "ZeroDivisionError" ELSE NoException
      [] step = "generate" ->
             IF req.format \notin {"docx", "pdf"} THEN "ValueError"
             ELSE IF ~ env.packages THEN "ImportError"
             ELSE NoException
      [] step = "narrative" -> "AttributeError"
      [] step = "html" -> NoException

\* the exception that leaves the body of the try block: that of the first
\* step that raises
RECURSIVE FirstException(_, _, _)
FirstException(steps, req, env) ==
    IF steps = <<>> THEN NoException
    ELSE IF StepRaises(Head(steps), req, env) # NoException
    THEN StepRaises(Head(steps), req, env)
    ELSE FirstException(Tail(steps), req, env)

\* mutant: the handler has no `except ValueError` clause
HandlerStatus_NoValueError(exc) == IF exc = NoException THEN 200 ELSE 500

\* try / except ValueError -> 400 / except Exception -> 500
HandlerStatus(exc) ==
    IF exc = NoException THEN 200
    ELSE IF exc \in ValueErrors THEN 400
    ELSE 500

-----------------------------------------------------------------------------
(* Inputs of the calls.                                                    *)

MaxTinyRoof == 2

Site(addr) == [address |-> addr, climate_zone |-> "E", seismic_zone |-> 3]

Solar(irr, tilt, az, prod) ==
    [annual_irradiation |-> irr, optimal_tilt |-> tilt, optimal_azimuth |-> az,
     annual_production_per_kwp |-> prod]

Analyses ==
    { [site |-> Site("Via Roma 1, Milano"), warnings |-> <<>>,
       solar_data |-> Solar(<<1450, 1>>, <<34, 1>>, Zero, <<1200, 1>>)],
      [site |-> Site("Partial"), warnings |-> <<>>,
       solar_data |-> Solar(<<1500, 1>>, <<34, 1>>, <<-5, 1>>, Zero)],
      [site |-> Site("Dark"), warnings |-> <<>>,
       solar_data |-> Solar(Zero, <<34, 1>>, Zero, Zero)] }

\* an analysis whose production figure is positive and very small
FaintAnalysis ==
    [site |-> Site("Faint"), warnings |-> <<>>,
     solar_data |-> Solar(<<1450, 1>>, <<34, 1>>, Zero, One)]

\* the settings argument: None, or <<s>> for a Settings object s
SettingsArgs ==
    { None,
      << [default_electricity_price |-> <<1, 4>>, default_cost_per_kwp |-> Zero,
          default_performance_ratio |-> <<4, 5>>] >>,
      << [default_electricity_price |-> <<-1, 4>>, default_cost_per_kwp |-> <<1200, 1>>,
          default_performance_ratio |-> <<3, 4>>] >> }

\* household-scale calls: every combination of these
Consumptions == { Zero, <<1200, 1>>, <<1500, 1>>, <<4500, 1>>, <<30000, 1>> }

RoofAreas == { <<a, 1>> : a \in (1..MaxTinyRoof) \cup {5, 35, 73, 80, 82} }

RoofTilts == { None, Zero, <<14, 1>> }

RoofAzimuths == { None, Zero, <<90, 1>>, <<180, 1>> }

\* plant-scale calls (around 500 kWp), without a roof tilt
LargeConsumptions == { <<700000, 1>> }

LargeRoofAreas == { <<2000, 1>>, <<2002, 1>> }

LargeRoofAzimuths == { None, Zero }

\* <<consumption, roof area, roof tilt, roof azimuth>> of the modelled calls
CallArgs ==
    (Consumptions \X RoofAreas \X RoofTilts \X RoofAzimuths)
    \cup (LargeConsumptions \X LargeRoofAreas \X {None} \X LargeRoofAzimuths)

\* the calls made with the faint analysis
FaintCallArgs ==
    { <<1200, 1>>, <<4500, 1>> } \X { <<2, 1>>, <<5, 1>>, <<35, 1>> } \X { None }
        \X { None }

\* calls whose roof azimuth is 75 degrees off the optimal one of the analysis:
\* 1 - 75 * 0.002 is the 0.85 of line 124
ThresholdCalls ==
    { an \in Analyses : an.solar_data.optimal_azimuth = Zero
                          /\ FLt(Zero, an.solar_data.annual_production_per_kwp) }
    \X ({ <<4500, 1>> } \X { <<35, 1>> } \X { None } \X { <<75, 1>> })

\* calls sized at about 25 kWp (50 modules of 500 Wp) on a roof of 200 m2
MediumCalls ==
    { an \in Analyses : an.solar_data.annual_production_per_kwp = <<1200, 1>> }
    \X ({ <<33000, 1>> } \X { <<200, 1>> } \X { None } \X { None })

\* the (analysis, arguments) pairs of the design calls
DesignCalls ==
    (Analyses \X CallArgs) \cup ({FaintAnalysis} \X FaintCallArgs) \cup ThresholdCalls
        \cup MediumCalls

\* the six section titles the prompt asks for (narrative.py lines 100-112),
\* the fourth one as dim, and the keys of the sections
Titles(dim) ==
    << <<"PREMESSA">>, <<"ANALISI", " ", "DEL", " ", "SITO">>,
       <<"RISORSA", " ", "SOLARE">>, dim, <<"ANALISI", " ", "ECONOMICA">>,
       <<"CONCLUSIONI">> >>

DimTitles == { <<"DIMENSIONAMENTO", " ", "DELL'IMPIANTO">>, <<"DIMENSIONAMENTO">> }

SectionKeys ==
    << "premessa", "analisi_sito", "risorsa_solare", "dimensionamento",
       "analisi_economica", "conclusioni" >>

\* the body text of the k-th section of a response
Body(k) == <<"Testo", " ", <<"1", "2", "3", "4", "5", "6">>[k]>>

\* the lines of a response from section k on: each title followed by a colon
\* and its body, on the same line (inline) or on the next one, and a blank
\* line between two sections if blank
RECURSIVE ResponseLines(_, _, _, _)
ResponseLines(k, dim, inline, blank) ==
    IF k > 6 THEN <<>>
    ELSE (IF inline THEN << Titles(dim)[k] \o <<":", " ">> \o Body(k) >>
                    ELSE << Titles(dim)[k] \o <<":">>, Body(k) >>)
         \o (IF blank /\ k < 6 THEN << <<>> >> ELSE <<>>)
         \o ResponseLines(k + 1, dim, inline, blank)

Response(dim, inline, blank) == Join(ResponseLines(1, dim, inline, blank))

\* other texts the service may answer with
OtherTexts ==
    { <<>>,
      <<"Testo", " ", "1">>,
      <<"premessa", ":", " ", "Testo", " ", "1">>,
      <<"Testo", " ", "1", "\n", "PREMESSA", ":", "\n", "Testo", " ", "2">>,
      <<"CONCLUSIONI", ":", "\n", "Conclusioni", " ", "finali">>,
      <<"PREMESSA", ":", "\n", "\n", "CONCLUSIONI", ":", "Testo", " ", "6">> }

Texts ==
    { Response(dim, inline, blank) : dim \in DimTitles, inline \in BOOLEAN,
                                     blank \in BOOLEAN }
    \cup OtherTexts

\* the designs handed to generate_narrative: the sample of the tests, and the
\* same design without inverter and economics; an optional object is None or <<x>>
SampleDesign ==
    [site |-> Site("Via Roma 1, 20121 Milano MI"),
     solar_data |-> Solar(<<2501, 2>>, <<35, 1>>, Zero, <<1180, 1>>),
     system_size_kwp |-> <<22, 5>>,
     num_panels |-> 10,
     module |-> << Mod("LONGi", "Hi-MO 6", <<440, 1>>, <<223, 10>>, <<39, 20>>) >>,
     inverter |-> << Inv("Huawei", "SUN2000-5KTL-M1", <<5, 1>>, <<15, 2>>) >>,
     estimated_production_kwh |-> <<5192, 1>>,
     self_consumption_rate |-> <<55, 1>>,
     performance_ratio |-> <<4, 5>>,
     economics |-> << [total_cost_eur |-> <<6600, 1>>, payback_years |-> <<57, 10>>] >>,
     notes |-> << "Inverter selezionato: Huawei SUN2000-5KTL-M1" >>]

NarrativeDesigns ==
    { SampleDesign,
      [SampleDesign EXCEPT !.inverter = None, !.economics = None, !.notes = <<>>] }

\* the settings argument of generate_narrative (None, or <<s>> for a Settings s)
\* and the key Settings() finds in SOLARSPEC_ANTHROPIC_API_KEY
NarrativeSettingsArgs ==
    { None, << [anthropic_api_key |-> ""] >>, << [anthropic_api_key |-> "sk-test-key"] >> }

EnvironmentKeys == { "", "sk-env-key" }

\* what the external service does when called: the client cannot be built, the
\* request raises, or it answers with a list of content blocks
TextBlock(text) == [type |-> "text", text |-> text]

ServiceAnswers ==
    { << TextBlock(Response(<<"DIMENSIONAMENTO">>, FALSE, TRUE)) >>,
      << [type |-> "thinking", text |-> <<"Testo", " ", "1">>],
         TextBlock(<<"PREMESSA", ":", "\n">>), TextBlock(<<"Testo", " ", "1">>) >>,
      << TextBlock(<<"Testo", " ", "1">>) >>,
      <<>> }

Service(outcome, content) == [outcome |-> outcome, content |-> content]

ServiceBehaviours ==
    { Service("client_error", <<>>), Service("api_error", <<>>) }
    \cup { Service("responds", content) : content \in ServiceAnswers }

\* the arguments of the zone lookups
Municipalities ==
    { "Milano", "milano", "Roma", "ROMA", "Palermo", "Aosta", "L'Aquila", "Catanzaro",
      "Cagliari", "NonExistent", "Paesino Sconosciuto" }

RegionArgs == { "", "Lombardia", "Calabria", "Sicilia", "Atlantide" }

\* the POST requests: the endpoint, for /api/generate the format field, and the
\* api_key field ("" for a request without a key, which is falsy like None)
Requests ==
    { [endpoint |-> e, format |-> "pdf", api_key |-> ""] : e \in Endpoints }
    \cup { [endpoint |-> "/api/generate", format |-> f, api_key |-> ""] :
               f \in {"docx", "txt"} }
    \cup { [endpoint |-> e, format |-> "pdf", api_key |-> "sk-test-key"] :
               e \in {"/api/narrative", "/api/preview"} }

\* what the handler's collaborators do during one request: the geocoder, the
\* PVGIS service, the sizing (it divides by zero on some inputs) and whether
\* python-docx and weasyprint are installed
Environments ==
    [geocoder : {"found", "not_found", "http_error", "bad_json"},
     pvgis    : {"ok", "http_error"},
     sizing   : {"ok", "zero_division"},
     packages : BOOLEAN]

\* the settings argument of SolarSpec(settings): None, or <<s>> for a Settings s
FacadeSettingsArgs ==
    { None,
      << [default_electricity_price |-> <<3, 10>>, default_cost_per_kwp |-> <<1200, 1>>,
          default_performance_ratio |-> <<3, 4>>] >> }

\* what the geocoder answers for the addresses of the calls (geo.py lines 50-57)
Geocoded ==
    ("Via Roma 1, 20121 Milano MI" :> [municipality |-> "Milano", region |-> "Lombardia"])
    @@ ("Via Maqueda 100, Palermo" :> [municipality |-> "Palermo", region |-> "Sicilia"])
    @@ ("Piazza Grande 1, Paesino" :> [municipality |-> "Paesino Sconosciuto", region |-> ""])

\* what PVGIS answers for a location (solar.py lines 71-77)
SolarAnswers ==
    { Solar(<<1450, 1>>, <<34, 1>>, Zero, <<1200, 1>>),
      Solar(<<1500, 1>>, <<34, 1>>, <<-5, 1>>, Zero) }

\* <<consumption, roof area, roof tilt, roof azimuth>> of the SolarSpec.design calls
FacadeCallArgs ==
    { <<4500, 1>> } \X { <<35, 1>>, <<5, 1>> } \X { None } \X { None }

SelectKwps == { <<3, 1>>, <<5, 1>>, <<6, 1>>, <<10, 1>>, <<25, 1>> }

-----------------------------------------------------------------------------
(* The state machine.                                                      *)

NoError == [type |-> "None", line |-> 0]

BlankOrient ==
    [tilt_diff |-> Zero, azimuth_diff |-> Zero, correction_factor |-> One,
     effective_prod_per_kwp |-> Zero]

BlankSizing ==
    [target_kwp0 |-> Zero, max_panels_by_area |-> 0, max_kwp_by_area |-> Zero,
     target_kwp |-> Zero, num_panels |-> 0, actual_kwp |-> Zero,
     estimated_production |-> Zero]

BlankSelfcons == [coverage_ratio |-> Zero, self_consumption_rate |-> Zero]

BlankEcon ==
    [total_cost |-> Zero, annual_self_consumed |-> Zero, annual_exported |-> Zero,
     deduction_total |-> Zero, annual_deduction |-> Zero, incentive_type |-> "",
     feed_in_tariff |-> Zero, annual_savings |-> Zero, effective_cost |-> Zero,
     payback |-> Zero]

BlankSel == [system_kwp |-> Zero, result |-> 0]

BlankNarr ==
    [design |-> None, api_key |-> "", importable |-> FALSE,
     service |-> [outcome |-> "", content |-> <<>>],
     prompt |-> None, calls |-> 0, result |-> <<>>]

BlankParsed == [text |-> <<>>, sections |-> <<>>]

BlankGeo == [municipality |-> "", region |-> "", climate_zone |-> "", seismic_zone |-> 0]

BlankHttp ==
    [request |-> [endpoint |-> "", format |-> "", api_key |-> ""],
     env |-> [geocoder |-> "", pvgis |-> "", sizing |-> "", packages |-> FALSE],
     raised |-> NoException, status |-> 0]

BlankLocation == [municipality |-> "", region |-> ""]

BlankSolarSpec ==
    [settings |-> None, method |-> "", address |-> "", location |-> BlankLocation,
     result |-> None]

Note(kind, x, y, name) == [kind |-> kind, x |-> x, y |-> y, name |-> name]

Init ==
    /\ catalog \in Catalogs
    /\ pc = "idle"
    /\ analysis = None
    /\ annual_consumption_kwh = Zero
    /\ roof_area_m2 = Zero
    /\ roof_tilt = None
    /\ roof_azimuth = None
    /\ settings = None
    /\ module = None
    /\ notes = <<>>
    /\ prod_per_kwp = Zero
    /\ orient = BlankOrient
    /\ sizing = BlankSizing
    /\ selfcons = BlankSelfcons
    /\ inverter = 0
    /\ econ = BlankEcon
    /\ design = None
    /\ error = NoError
    /\ sel = BlankSel
    /\ narr = BlankNarr
    /\ parsed = BlankParsed
    /\ geo = BlankGeo
    /\ http = BlankHttp
    /\ solarspec = BlankSolarSpec

args == <<analysis, annual_consumption_kwh, roof_area_m2, roof_tilt, roof_azimuth,
          settings>>

\* design_system(...) is called; line 107: settings = settings or Settings()
DesignCall ==
    /\ pc = "idle"
    /\ \E c \in DesignCalls, st \in SettingsArgs :
        LET an == c[1]
            a  == c[2]
        IN
          /\ analysis' = an
          /\ annual_consumption_kwh' = a[1]
          /\ roof_area_m2' = a[2]
          /\ roof_tilt' = a[3]
          /\ roof_azimuth' = a[4]
          /\ settings' = IF st = None THEN DefaultSettings ELSE st[1]
    /\ pc' = "module"
    /\ UNCHANGED <<outer, catalog, module, notes, prod_per_kwp, orient, sizing, selfcons,
                   inverter, econ, design, error, sel>>

\* lines 108-109
LoadModule ==
    /\ pc = "module"
    /\ module' = DefaultModule(catalog)
    /\ notes' = <<>>
    /\ pc' = "production"
    /\ UNCHANGED <<outer, catalog, args, prod_per_kwp, orient, sizing, selfcons, inverter,
                   econ, design, error, sel>>

\* mutant: the estimated production is written back into the analysis
Production_WritesBack ==
    /\ pc = "production"
    /\ prod_per_kwp' = ProdPerKwp(analysis, settings)
    /\ analysis' = [analysis EXCEPT !.solar_data.annual_production_per_kwp =
                                        ProdPerKwp(analysis, settings)]
    /\ notes' = IF ProductionEstimated(analysis)
                THEN Append(notes, Note("estimated", <<>>, <<>>, <<>>))
                ELSE notes
    /\ pc' = "orientation"
    /\ UNCHANGED <<outer, catalog, annual_consumption_kwh, roof_area_m2, roof_tilt,
                   roof_azimuth, settings, module, orient, sizing, selfcons,
                   inverter, econ, design, error, sel>>

\* lines 111-115
Production ==
    /\ pc = "production"
    /\ prod_per_kwp' = ProdPerKwp(analysis, settings)
    /\ notes' = IF ProductionEstimated(analysis)
                THEN Append(notes, Note("estimated", <<>>, <<>>, <<>>))
                ELSE notes
    /\ pc' = "orientation"
    /\ UNCHANGED <<outer, catalog, args, module, orient, sizing, selfcons, inverter, econ,
                   design, error, sel>>

\* lines 117-129
Orientation ==
    /\ pc = "orientation"
    /\ LET cf == CorrectionFactor(roof_tilt, roof_azimuth, analysis)
           corrected == roof_tilt # None \/ roof_azimuth # None
       IN  /\ orient' =
                 [tilt_diff |-> IF corrected THEN TiltDiff(roof_tilt, analysis) ELSE Zero,
                  azimuth_diff |->
                      IF corrected THEN AzimuthDiff(roof_azimuth, analysis) ELSE Zero,
                  correction_factor |-> cf,
                  effective_prod_per_kwp |-> FMul(prod_per_kwp, cf)]
           /\ IF OrientationNoted(roof_tilt, roof_azimuth, analysis)
              THEN \E loss \in Round(FMul(FSub(One, cf), <<100, 1>>), 0) :
                       notes' = Append(notes, Note("orientation", loss, <<>>, <<>>))
              ELSE notes' = notes
    /\ pc' = "sizing"
    /\ UNCHANGED <<outer, catalog, args, module, prod_per_kwp, sizing, selfcons, inverter,
                   econ, design, error, sel>>

\* line 132 with effective_prod_per_kwp = 0.0: float division by zero
SizingRaises ==
    /\ pc = "sizing"
    /\ orient.effective_prod_per_kwp = Zero
    /\ error' = [type |-> "ZeroDivisionError", line |-> 132]
    /\ pc' = "raised"
    /\ UNCHANGED <<outer, catalog, args, module, notes, prod_per_kwp, orient, sizing,
                   selfcons, inverter, econ, design, sel>>

\* lines 131-150
Sizing ==
    /\ pc = "sizing"
    /\ orient.effective_prod_per_kwp # Zero
    /\ LET eff    == orient.effective_prod_per_kwp
           target == TargetKwp(annual_consumption_kwh, eff)
           maxkwp == MaxKwpByArea(roof_area_m2, module)
           n      == NumPanels(ClampedTarget(target, roof_area_m2, module), module)
       IN  /\ sizing' =
                 [target_kwp0 |-> target,
                  max_panels_by_area |-> MaxPanelsByArea(roof_area_m2, module),
                  max_kwp_by_area |-> maxkwp,
                  target_kwp |-> ClampedTarget(target, roof_area_m2, module),
                  num_panels |-> n,
                  actual_kwp |-> ActualKwp(n, module),
                  estimated_production |-> FMul(ActualKwp(n, module), eff)]
           /\ IF RoofClamps(target, roof_area_m2, module)
              THEN \E from \in Round(target, 1), to \in Round(maxkwp, 1) :
                       notes' = Append(notes, Note("roof", from, to, <<>>))
              ELSE notes' = notes
    /\ pc' = "selfcons"
    /\ UNCHANGED <<outer, catalog, args, module, prod_per_kwp, orient, selfcons, inverter,
                   econ, design, error, sel>>

\* mutant: the inverter note is put in front of the notes
SelfConsumption_Prepends ==
    /\ pc = "selfcons"
    /\ LET ratio == CoverageRatio(sizing.estimated_production, annual_consumption_kwh)
           inv   == SelectInverter(catalog, sizing.actual_kwp)
       IN  /\ selfcons' = [coverage_ratio |-> ratio,
                           self_consumption_rate |-> SelfConsumptionRate(ratio)]
           /\ inverter' = inv
           /\ notes' = IF inv # 0
                       THEN << Note("inverter", <<>>, <<>>,
                                <<catalog.inverters[inv].manufacturer,
                                  catalog.inverters[inv].model>>) >> \o notes
                       ELSE notes
    /\ pc' = "economics"
    /\ UNCHANGED <<outer, catalog, args, module, prod_per_kwp, orient, sizing, econ, design,
                   error, sel>>

\* lines 152-167
SelfConsumption ==
    /\ pc = "selfcons"
    /\ LET ratio == CoverageRatio(sizing.estimated_production, annual_consumption_kwh)
           inv   == SelectInverter(catalog, sizing.actual_kwp)
       IN  /\ selfcons' = [coverage_ratio |-> ratio,
                           self_consumption_rate |-> SelfConsumptionRate(ratio)]
           /\ inverter' = inv
           /\ notes' = IF inv # 0
                       THEN Append(notes, Note("inverter", <<>>, <<>>,
                                <<catalog.inverters[inv].manufacturer,
                                  catalog.inverters[inv].model>>))
                       ELSE notes
    /\ pc' = "economics"
    /\ UNCHANGED <<outer, catalog, args, module, prod_per_kwp, orient, sizing, econ, design,
                   error, sel>>

\* lines 169-202: the locals of the economic analysis up to the payback
Economy ==
    LET kwp        == sizing.actual_kwp
        production == sizing.estimated_production
        rate       == selfcons.self_consumption_rate
        total_cost == FMul(kwp, settings.default_cost_per_kwp)
        self_used  == FMul(production, rate)
        exported   == FMul(production, FSub(One, rate))
        ded        == DeductionTotal(kwp, total_cost)
        annual_ded == AnnualDeduction(kwp, total_cost)
        tariff     == FeedInTariff(kwp)
        savings    == FAdd(FAdd(FMul(self_used, settings.default_electricity_price),
                                FMul(exported, tariff)),
                           annual_ded)
        eff_cost   == FSub(total_cost, ded)
    IN  [total_cost |-> total_cost, annual_self_consumed |-> self_used,
         annual_exported |-> exported, deduction_total |-> ded,
         annual_deduction |-> annual_ded, incentive_type |-> IncentiveType(kwp),
         feed_in_tariff |-> tariff, annual_savings |-> savings,
         effective_cost |-> eff_cost,
         payback |-> Payback(eff_cost, savings, annual_ded)]

\* line 203 with total_cost = 0.0: float division by zero
EconomicsRaises ==
    /\ pc = "economics"
    /\ Economy.total_cost = Zero
    /\ econ' = Economy
    /\ error' = [type |-> "ZeroDivisionError", line |-> 203]
    /\ pc' = "raised"
    /\ UNCHANGED <<outer, catalog, args, module, notes, prod_per_kwp, orient, sizing,
                   selfcons, inverter, design, sel>>

\* line 203
Roi25y(e) ==
    FMul(FDiv(FSub(FMul(e.annual_savings, <<25, 1>>), e.total_cost), e.total_cost),
         <<100, 1>>)

\* line 213
IncentiveValue(e) ==
    FAdd(e.deduction_total,
         FMul(FMul(e.annual_exported, e.feed_in_tariff), <<25, 1>>))

\* lines 169-229: the economic analysis and the returned SystemDesign
Economics ==
    /\ pc = "economics"
    /\ Economy.total_cost # Zero
    /\ econ' = Economy
    /\ \E tc \in Round(Economy.total_cost, 2),
          cpk \in Round(settings.default_cost_per_kwp, 2),
          sav \in Round(Economy.annual_savings, 2),
          pb \in Round(Economy.payback, 1),
          roi \in Round(Roi25y(Economy), 1),
          iv \in Round(IncentiveValue(Economy), 2),
          lc \in Round(Lcoe(Economy.effective_cost, sizing.estimated_production), 4),
          size \in Round(sizing.actual_kwp, 2),
          prod \in Round(sizing.estimated_production, 0),
          scr \in Round(FMul(selfcons.self_consumption_rate, <<100, 1>>), 1) :
          design' =
              << [site |-> analysis.site,
                  solar_data |-> analysis.solar_data,
                  system_size_kwp |-> size,
                  num_panels |-> sizing.num_panels,
                  module |-> module,
                  inverter |-> inverter,
                  estimated_production_kwh |-> prod,
                  self_consumption_rate |-> scr,
                  performance_ratio |-> settings.default_performance_ratio,
                  economics |->
                      [total_cost_eur |-> tc, cost_per_kwp |-> cpk,
                       annual_savings_eur |-> sav, payback_years |-> pb,
                       roi_25y_percent |-> roi,
                       incentive_type |-> Economy.incentive_type,
                       incentive_value_eur |-> iv, lcoe |-> lc],
                  notes |-> notes] >>
    /\ pc' = "done"
    /\ UNCHANGED <<outer, catalog, args, module, notes, prod_per_kwp, orient, sizing,
                   selfcons, inverter, error, sel>>

\* a direct call _select_inverter(system_kwp), lines 48-76
SelectInverterCall ==
    /\ pc = "idle"
    /\ \E kwp \in SelectKwps :
          sel' = [system_kwp |-> kwp, result |-> SelectInverter(catalog, kwp)]
    /\ pc' = "selected"
    /\ UNCHANGED <<outer, catalog, args, module, notes, prod_per_kwp, orient, sizing,
                   selfcons, inverter, econ, design, error>>

designer == <<catalog, args, module, notes, prod_per_kwp, orient, sizing, selfcons,
              inverter, econ, design, error, sel>>

\* a direct call _parse_sections(text), narrative.py lines 166-206
ParseSectionsCall ==
    /\ pc = "idle"
    /\ \E text \in Texts :
          parsed' = [text |-> text, sections |-> ParseSections(text)]
    /\ pc' = "parsed"
    /\ UNCHANGED <<narr, geo, http, solarspec, designer>>

\* generate_narrative(design, settings) is called; line 130: settings or Settings()
NarrativeCall ==
    /\ pc = "idle"
    /\ \E d \in NarrativeDesigns, st \in NarrativeSettingsArgs, env \in EnvironmentKeys,
          imp \in BOOLEAN, svc \in ServiceBehaviours :
          narr' = [BlankNarr EXCEPT
                      !.design = <<d>>,
                      !.api_key = IF st = None THEN env ELSE st[1].anthropic_api_key,
                      !.importable = imp,
                      !.service = svc]
    /\ pc' = "narrative"
    /\ UNCHANGED <<parsed, geo, http, solarspec, designer>>

\* lines 132-134: no key, nothing is attempted
NarrativeNoKey ==
    /\ pc = "narrative"
    /\ ApiKeyMissing(narr.api_key)
    /\ narr' = [narr EXCEPT !.result = <<>>]
    /\ pc' = "narrated"
    /\ UNCHANGED <<parsed, geo, http, solarspec, designer>>

\* lines 136-142: import anthropic raises ImportError, or the prompt is built
NarrativeImport ==
    /\ pc = "narrative"
    /\ ~ ApiKeyMissing(narr.api_key)
    /\ IF narr.importable
       THEN /\ narr' = [narr EXCEPT !.prompt = <<BuildNarrativePrompt(narr.design[1])>>]
            /\ pc' = "request"
       ELSE /\ narr' = [narr EXCEPT !.result = <<>>]
            /\ pc' = "narrated"
    /\ UNCHANGED <<parsed, geo, http, solarspec, designer>>

\* lines 144-163: the client is built and the service is called; every
\* Exception inside the try block ends in `return {}`
NarrativeRequest ==
    /\ pc = "request"
    /\ narr' = IF narr.service.outcome = "client_error"
               THEN [narr EXCEPT !.result = <<>>]
               ELSE IF narr.service.outcome = "api_error"
               THEN [narr EXCEPT !.calls = @ + 1, !.result = <<>>]
               ELSE [narr EXCEPT !.calls = @ + 1,
                                 !.result = ParseSections(RawText(narr.service.content))]
    /\ pc' = "narrated"
    /\ UNCHANGED <<parsed, geo, http, solarspec, designer>>

\* get_climate_zone(municipality, region) and get_seismic_zone(municipality,
\* region) are called, geo.py lines 96-109 and 137-150
ZoneCall ==
    /\ pc = "idle"
    /\ \E m \in Municipalities, r \in RegionArgs :
          geo' = [municipality |-> m, region |-> r,
                  climate_zone |-> GetClimateZone(m, r),
                  seismic_zone |-> GetSeismicZone(m, r)]
    /\ pc' = "zoned"
    /\ UNCHANGED <<narr, parsed, http, solarspec, designer>>

\* the handler of one POST endpoint runs on a request and answers
Handle(endpoint) ==
    /\ pc = "idle"
    /\ \E req \in Requests, env \in Environments :
          /\ req.endpoint = endpoint
          /\ LET exc == FirstException(Pipeline(endpoint), req, env)
             IN  http' = [request |-> req, env |-> env, raised |-> exc,
                          status |-> HandlerStatus(exc)]
    /\ pc' = "answered"
    /\ UNCHANGED <<narr, parsed, geo, solarspec, designer>>

\* api/__init__.py lines 337-347, 350-366, 369-402, 405-422, 425-443
ApiAnalyze == Handle("/api/analyze")

ApiDesign == Handle("/api/design")

ApiGenerate == Handle("/api/generate")

ApiNarrative == Handle("/api/narrative")

ApiPreview == Handle("/api/preview")

\* SolarSpec(settings).analyze(address), __init__.py lines 29-30 and 32-65
SolarSpecAnalyze ==
    /\ pc = "idle"
    /\ \E st \in FacadeSettingsArgs, address \in DOMAIN Geocoded, sd \in SolarAnswers :
          solarspec' = [settings |-> IF st = None THEN DefaultSettings ELSE st[1],
                        method |-> "analyze",
                        address |-> address,
                        location |-> Geocoded[address],
                        result |-> << Analyze(address, Geocoded[address], sd) >>]
    /\ pc' = "analyzed"
    /\ UNCHANGED <<narr, parsed, geo, http, designer>>

\* SolarSpec(settings).design(address, ...), __init__.py lines 29-30 and 67-96:
\* the site is analyzed and design_system is called without a settings
\* argument, so that its line 107 builds a new Settings()
SolarSpecDesign ==
    /\ pc = "idle"
    /\ \E st \in FacadeSettingsArgs, address \in DOMAIN Geocoded, sd \in SolarAnswers,
          a \in FacadeCallArgs :
          /\ solarspec' = [settings |-> IF st = None THEN DefaultSettings ELSE st[1],
                           method |-> "design",
                           address |-> address,
                           location |-> Geocoded[address],
                           result |-> << Analyze(address, Geocoded[address], sd) >>]
          /\ analysis' = Analyze(address, Geocoded[address], sd)
          /\ annual_consumption_kwh' = a[1]
          /\ roof_area_m2' = a[2]
          /\ roof_tilt' = a[3]
          /\ roof_azimuth' = a[4]
          /\ settings' = DefaultSettings
    /\ pc' = "module"
    /\ UNCHANGED <<narr, parsed, geo, http, catalog, module, notes, prod_per_kwp, orient,
                   sizing, selfcons, inverter, econ, design, error, sel>>

\* the call is over (returned or raised); its frame is gone
Return ==
    /\ pc \in {"done", "raised", "selected", "parsed", "narrated", "zoned", "answered",
              "analyzed"}
    /\ pc' = "idle"
    /\ analysis' = None
    /\ annual_consumption_kwh' = Zero
    /\ roof_area_m2' = Zero
    /\ roof_tilt' = None
    /\ roof_azimuth' = None
    /\ settings' = None
    /\ module' = None
    /\ notes' = <<>>
    /\ prod_per_kwp' = Zero
    /\ orient' = BlankOrient
    /\ sizing' = BlankSizing
    /\ selfcons' = BlankSelfcons
    /\ inverter' = 0
    /\ econ' = BlankEcon
    /\ design' = None
    /\ error' = NoError
    /\ sel' = BlankSel
    /\ narr' = BlankNarr
    /\ parsed' = BlankParsed
    /\ geo' = BlankGeo
    /\ http' = BlankHttp
    /\ solarspec' = BlankSolarSpec
    /\ UNCHANGED catalog

Next ==
    \/ DesignCall
    \/ LoadModule
    \/ Production
    \/ Orientation
    \/ SizingRaises
    \/ Sizing
    \/ SelfConsumption
    \/ EconomicsRaises
    \/ Economics
    \/ SelectInverterCall
    \/ ParseSectionsCall
    \/ NarrativeCall
    \/ NarrativeNoKey
    \/ NarrativeImport
    \/ NarrativeRequest
    \/ ZoneCall
    \/ ApiAnalyze
    \/ ApiDesign
    \/ ApiGenerate
    \/ ApiNarrative
    \/ ApiPreview
    \/ SolarSpecAnalyze
    \/ SolarSpecDesign
    \/ Return

Spec == Init /\ [][Next]_vars

\* data/products.json is replaced on disk while the process runs (an edit, a
\* package upgrade); _load_product_catalog reads the file again at every call.
\* A replacement is seen only by the next read, so it is taken right before the
\* steps that read the file: a call (idle) and the inverter selection of a
\* design call (selfcons).
ReplaceCatalogFile ==
    /\ pc \in {"idle", "selfcons"}
    /\ \E c \in Catalogs \ {catalog} : catalog' = c
    /\ UNCHANGED <<outer, pc, args, module, notes, prod_per_kwp, orient, sizing, selfcons,
                   inverter, econ, design, error, sel>>

NextWithFile == Next \/ ReplaceCatalogFile

\* the program together with a catalog file that may change
SpecWithFile == Init /\ [][NextWithFile]_vars

-----------------------------------------------------------------------------
(* Properties.                                                             *)

Returned == pc = "done"

\* the sizing block has run and its locals are set
Sized == pc \in {"selfcons", "economics", "done"} \/ (pc = "raised" /\ error.line = 203)

\* num_panels * module.power_wp / 1000 of the returned design, computed from the
\* design's own fields
DesignCapacity ==
    R(design[1].num_panels * design[1].module.power_wp[1],
      1000 * design[1].module.power_wp[2])

\* C1 (as claimed): in every returned design system_size_kwp equals
\* num_panels * module.power_wp / 1000 exactly.
C1_ExactCapacity ==
    Returned => design[1].system_size_kwp = DesignCapacity

\* C1 (amended): in every returned design system_size_kwp is
\* num_panels * module.power_wp / 1000 rounded to two decimals: a multiple of 0.01
\* within 0.005 of it, hence equal to it when it has at most two decimals.
C1_RoundedCapacity ==
    Returned =>
        /\ 100 % design[1].system_size_kwp[2] = 0
        /\ FLe(FAbs(FSub(design[1].system_size_kwp, DesignCapacity)), <<1, 200>>)

\* a returned design whose capacity has a third decimal (one 445 Wp panel: 0.445 kWp)
C1_Witness ==
    /\ Returned
    /\ design[1].module.power_wp = <<445, 1>>
    /\ design[1].num_panels = 1
    /\ design[1].system_size_kwp # DesignCapacity

\* C2 (as claimed): design_system never raises; the call with no production data
\* and zero irradiation, and the call with cost_per_kwp = 0, return a design.
C2_NeverRaises ==
    pc # "raised"

\* C3 (as claimed): a supplied roof_tilt (0 included) gives
\* tilt_diff = |roof_tilt - optimal_tilt|, a supplied roof_azimuth (0 included) gives
\* azimuth_diff = |roof_azimuth - optimal_azimuth|.
C3_SuppliedAnglesUsed ==
    pc \in {"sizing", "selfcons", "economics", "done"} =>
        /\ roof_tilt # None =>
              orient.tilt_diff = FAbs(FSub(roof_tilt, analysis.solar_data.optimal_tilt))
        /\ roof_azimuth # None =>
              orient.azimuth_diff =
                  FAbs(FSub(roof_azimuth, analysis.solar_data.optimal_azimuth))

\* C4: num_panels >= 1 once the sizing has run and in every returned design.
C4_MinimumPanel ==
    /\ Sized => sizing.num_panels >= 1
    /\ Returned => design[1].num_panels >= 1

\* a returned design for a roof that fits no module
C4_Witness ==
    /\ Returned
    /\ FLt(roof_area_m2, module.area_m2)
    /\ design[1].num_panels = 1

RoofNotes == { i \in DOMAIN notes : notes[i].kind = "roof" }

\* x is a with one decimal place
OneDecimalOf(x, a) ==
    /\ 10 % x[2] = 0
    /\ FLe(FAbs(FSub(x, a)), <<1, 20>>)

\* C5: when target_kwp > max_kwp_by_area = floor(roof_area_m2 / area_m2) * power_wp
\* / 1000 the target becomes max_kwp_by_area and exactly one roof-area note names
\* the original and the clamped capacity; otherwise the target is unchanged and
\* there is no roof-area note.
C5_RoofClamp ==
    Sized =>
        LET mp == sizing.max_panels_by_area
            mx == R(mp * module.power_wp[1], 1000 * module.power_wp[2])
        IN  /\ FLe(FMul(<<mp, 1>>, module.area_m2), roof_area_m2)
            /\ FLt(roof_area_m2, FMul(<<mp + 1, 1>>, module.area_m2))
            /\ sizing.max_kwp_by_area = mx
            /\ IF FLt(mx, sizing.target_kwp0)
               THEN /\ sizing.target_kwp = mx
                    /\ Cardinality(RoofNotes) = 1
                    /\ \A i \in RoofNotes :
                          /\ OneDecimalOf(notes[i].x, sizing.target_kwp0)
                          /\ OneDecimalOf(notes[i].y, mx)
               ELSE /\ sizing.target_kwp = sizing.target_kwp0
                    /\ RoofNotes = {}

\* a returned design whose target was clamped by the roof
C5_Witness ==
    /\ Returned
    /\ FLt(sizing.max_kwp_by_area, sizing.target_kwp0)
    /\ sizing.target_kwp = sizing.max_kwp_by_area
    /\ Cardinality(RoofNotes) = 1

\* num_panels of the same call with another roof area
NumPanelsWithRoof(roof) ==
    NumPanels(ClampedTarget(sizing.target_kwp0, roof, module), module)

\* C6: with everything but roof_area_m2 equal, a smaller roof never yields more
\* panels.
C6_RoofMonotone ==
    Sized =>
        \A r \in RoofAreas \cup LargeRoofAreas :
            FLe(r, roof_area_m2) => NumPanelsWithRoof(r) <= sizing.num_panels

\* a call for which some smaller roof yields strictly fewer panels
C6_Witness ==
    /\ Returned
    /\ \E r \in RoofAreas :
          FLt(r, roof_area_m2) /\ NumPanelsWithRoof(r) < sizing.num_panels

\* C7: with ratio = estimated_production / annual_consumption, ratio <= 0.5 gives
\* 70%, 0.5 < ratio <= 0.8 gives 55%, 0.8 < ratio <= 1.0 gives 40%, ratio > 1.0
\* gives 30%; the reported self_consumption_rate is one of 70, 55, 40, 30.
C7_SelfConsumptionBuckets ==
    Returned =>
        LET p   == sizing.estimated_production
            c   == annual_consumption_kwh
            scr == design[1].self_consumption_rate
        IN  /\ scr \in { <<70, 1>>, <<55, 1>>, <<40, 1>>, <<30, 1>> }
            /\ c[1] > 0 =>
                  /\ FLe(FMul(p, <<2, 1>>), c) => scr = <<70, 1>>
                  /\ FLt(c, FMul(p, <<2, 1>>)) /\ FLe(FMul(p, <<5, 1>>), FMul(c, <<4, 1>>))
                        => scr = <<55, 1>>
                  /\ FLt(FMul(c, <<4, 1>>), FMul(p, <<5, 1>>)) /\ FLe(p, c)
                        => scr = <<40, 1>>
                  /\ FLt(c, p) => scr = <<30, 1>>

\* a returned design whose coverage ratio is exactly 0.8
C7_Witness ==
    /\ Returned
    /\ annual_consumption_kwh[1] > 0
    /\ FMul(sizing.estimated_production, <<5, 1>>) = FMul(annual_consumption_kwh, <<4, 1>>)
    /\ design[1].self_consumption_rate = <<55, 1>>

\* C8: actual_kwp <= 20 uses the SSP label with tariff 0.06; 20 < actual_kwp <= 500
\* the SSP label with tariff 0.04; actual_kwp > 500 the RID label with tariff 0.04
\* and a tax deduction of zero.
C8_IncentiveScheme ==
    Returned =>
        LET kwp   == DesignCapacity
            label == design[1].economics.incentive_type
        IN  /\ FLe(kwp, <<20, 1>>) =>
                  /\ label = "SSP (Scambio Sul Posto) + Detrazione 50%"
                  /\ econ.feed_in_tariff = R(6, 100)
            /\ FLt(<<20, 1>>, kwp) /\ FLe(kwp, <<500, 1>>) =>
                  /\ label = "SSP (Scambio Sul Posto) + Detrazione 50%"
                  /\ econ.feed_in_tariff = R(4, 100)
            /\ FLt(<<500, 1>>, kwp) =>
                  /\ label = "RID (Ritiro Dedicato)"
                  /\ econ.feed_in_tariff = R(4, 100)
                  /\ econ.deduction_total = Zero
                  /\ econ.annual_deduction = Zero

\* a returned design of exactly 500 kWp, still under the SSP scheme
C8_Witness ==
    /\ Returned
    /\ DesignCapacity = <<500, 1>>
    /\ design[1].economics.incentive_type = "SSP (Scambio Sul Posto) + Detrazione 50%"
    /\ econ.deduction_total # Zero

\* C9: payback_years is effective_cost / (annual_savings - annual_deduction)
\* (reported with one decimal) when that denominator is > 0 and exactly 99 when it
\* is <= 0; the payback never raises.
C9_Payback ==
    /\ error.line # 202
    /\ Returned =>
        LET denom == FSub(econ.annual_savings, econ.annual_deduction)
            years == design[1].economics.payback_years
        IN  IF denom[1] > 0
            THEN /\ FMul(econ.payback, denom) = econ.effective_cost
                 /\ OneDecimalOf(years, econ.payback)
            ELSE /\ econ.payback = <<99, 1>>
                 /\ years = <<99, 1>>

\* a returned design whose yearly savings net of the deduction are not positive
C9_Witness ==
    /\ Returned
    /\ FSub(econ.annual_savings, econ.annual_deduction)[1] <= 0
    /\ design[1].economics.payback_years = <<99, 1>>

\* the selection rule of the claim, for the inverters invs, the capacity kwp and
\* the selected index idx (0 = None)
SelectedAsClaimed(invs, kwp, idx) ==
    LET survivors ==
            { i \in 1..Len(invs) :
                  FLe(FMul(kwp, <<8, 10>>), invs[i].max_dc_power_kw) }
        score(i) ==
            FAdd(IF FLt(invs[i].power_kw, kwp) THEN FSub(kwp, invs[i].power_kw)
                                              ELSE FSub(invs[i].power_kw, kwp),
                 IF FLt(invs[i].power_kw, FMul(kwp, <<9, 10>>)) THEN <<10, 1>> ELSE Zero)
    IN  survivors # {} =>
            /\ idx \in survivors
            /\ \A j \in survivors :
                  /\ FLe(score(idx), score(j))
                  /\ score(j) = score(idx) => idx <= j

\* C10: inverters with max_dc_power_kw < 0.8 * system_kwp are discarded; the
\* survivor of minimum score |power_kw - system_kwp| + (0 if power_kw >= 0.9 *
\* system_kwp else 10) is returned, the earliest on equal scores; the catalog
\* [(3 kW, 4.5), (6 kW, 9)] with system_kwp = 5 returns the 6 kW entry.
C10_InverterSelection ==
    /\ pc = "selected" => SelectedAsClaimed(catalog.inverters, sel.system_kwp, sel.result)
    /\ pc \in {"economics", "done"} =>
          SelectedAsClaimed(catalog.inverters, sizing.actual_kwp, inverter)
    /\ pc = "selected" /\ catalog = InverterOnlyCatalog /\ sel.system_kwp = <<5, 1>> =>
          /\ sel.result = 2
          /\ catalog.inverters[sel.result].power_kw = <<6, 1>>

\* the example of the claim: both inverters survive and the 6 kW one is returned
C10_Witness ==
    /\ pc = "selected"
    /\ catalog = InverterOnlyCatalog
    /\ sel.system_kwp = <<5, 1>>
    /\ \A i \in 1..2 : FLe(<<4, 1>>, catalog.inverters[i].max_dc_power_kw)
    /\ catalog.inverters[sel.result].power_kw = <<6, 1>>

\* what the claim says of a selection idx (0 = None) among the inverters invs
\* for the capacity kwp
NoneOrFallbackAsClaimed(invs, kwp, idx) ==
    LET survivors ==
            { i \in 1..Len(invs) :
                  FLe(FMul(kwp, <<8, 10>>), invs[i].max_dc_power_kw) }
    IN  /\ idx = 0 <=> invs = <<>>
        /\ invs # <<>> => idx \in 1..Len(invs)
        /\ invs # <<>> /\ survivors = {} =>
              \A j \in 1..Len(invs) : FLe(invs[j].power_kw, invs[idx].power_kw)

\* C11: _select_inverter returns None, without raising, exactly when the
\* inverter catalog is empty; with a non-empty catalog it returns one of the
\* catalog's inverters, and when no inverter passes the DC-input filter it
\* returns an inverter of the largest power_kw.
C11_NoneOnlyWhenEmpty ==
    /\ pc = "selected" =>
          NoneOrFallbackAsClaimed(catalog.inverters, sel.system_kwp, sel.result)
    /\ pc \in {"economics", "done"} =>
          NoneOrFallbackAsClaimed(catalog.inverters, sizing.actual_kwp, inverter)
    /\ pc = "raised" => error.line \notin 48..76

\* a plant too large for every inverter of the catalog gets the largest one
C11_Witness ==
    /\ pc = "done"
    /\ catalog = CommercialCatalog
    /\ \A i \in 1..Len(catalog.inverters) :
          FLt(catalog.inverters[i].max_dc_power_kw, FMul(sizing.actual_kwp, <<8, 10>>))
    /\ inverter # 0
    /\ catalog.inverters[inverter].power_kw = <<100, 1>>

C13_OneCatalogPerCall ==
    pc \in {"economics", "done"} =>
        \E c \in Catalogs :
            /\ module = DefaultModule(c)
            /\ inverter = SelectInverter(c, sizing.actual_kwp)

\* C14: the SystemDesign returned by design_system carries exactly the site and
\* the solar_data of the AnalysisResult it was given, and from the call to the
\* return design_system leaves that AnalysisResult (site, solar_data, warnings)
\* unchanged.
C14_AnalysisCarried ==
    /\ [](Returned => /\ design[1].site = analysis.site
                      /\ design[1].solar_data = analysis.solar_data)
    /\ [][analysis # None /\ pc' # "idle" =>
              /\ analysis'.site = analysis.site
              /\ analysis'.solar_data = analysis.solar_data
              /\ analysis'.warnings = analysis.warnings]_vars

\* a design returned for an analysis whose production figure had to be estimated
C14_Witness ==
    /\ Returned
    /\ ProductionEstimated(analysis)
    /\ design[1].solar_data.annual_production_per_kwp = Zero
    /\ design[1].site.address = "Partial"

\* the place of a note in the order in which design_system emits them
NoteRank(note) ==
    CASE note.kind = "estimated"   -> 1
      [] note.kind = "orientation" -> 2
      [] note.kind = "roof"        -> 3
      [] note.kind = "inverter"    -> 4

\* C15: within one design call the notes list only grows by appends, and the
\* returned notes are in the order of the steps: production-estimated note,
\* orientation-loss note, roof-area clamp note, inverter note; no note is
\* removed, reordered or edited after being appended.
C15_NotesAppendOnly ==
    /\ [][pc # "idle" /\ pc' # "idle" =>
              /\ Len(notes') \in {Len(notes), Len(notes) + 1}
              /\ SubSeq(notes', 1, Len(notes)) = notes]_vars
    /\ [](\A i, j \in DOMAIN notes : i < j => NoteRank(notes[i]) < NoteRank(notes[j]))
    /\ [](Returned => design[1].notes = notes)

\* a design returned with all four notes
C15_Witness ==
    /\ Returned
    /\ Len(design[1].notes) = 4
    /\ design[1].notes[1].kind = "estimated"
    /\ design[1].notes[4].kind = "inverter"

\* a design call with positive consumption, roof area and production-per-kWp
\* figure, under default settings
PositiveCall ==
    /\ analysis # None
    /\ FLt(Zero, annual_consumption_kwh)
    /\ FLt(Zero, roof_area_m2)
    /\ FLt(Zero, analysis.solar_data.annual_production_per_kwp)
    /\ settings = DefaultSettings

SixSections == [k \in { SectionKeys[i] : i \in 1..6 } |->
                   Body(CHOOSE i \in 1..6 : SectionKeys[i] = k)]

\* C17: _parse_sections maps a response made of the six uppercase section
\* headers (the fourth one DIMENSIONAMENTO DELL'IMPIANTO), each followed by a
\* colon and non-empty body text, to exactly the six keys, each holding the
\* body text that followed its header; empty input yields an empty dict.
C17_SixSections ==
    pc = "parsed" =>
        /\ (\E inline, blank \in BOOLEAN :
               parsed.text = Response(<<"DIMENSIONAMENTO", " ", "DELL'IMPIANTO">>,
                                      inline, blank))
           => parsed.sections = SixSections
        /\ parsed.text = <<>> => parsed.sections = <<>>

\* the service is unavailable to the running generate_narrative call
NarrativeUnavailable ==
    \/ narr.api_key = ""
    \/ ~ narr.importable
    \/ narr.service.outcome \in {"client_error", "api_error"}

\* C16: generate_narrative returns an empty dict, without raising, when the
\* API key is empty, when the anthropic package cannot be imported and when
\* the API call raises; with no key the external service is not called; the
\* SystemDesign passed in is never modified.
C16_NarrativeFallback ==
    /\ [](pc = "narrated" /\ NarrativeUnavailable => narr.result = <<>>)
    /\ [](pc \in {"narrative", "request", "narrated"} /\ narr.api_key = "" =>
              narr.calls = 0)
    /\ [](pc = "raised" => narr = BlankNarr)
    /\ [][(pc = "narrative" \/ pc = "request") =>
              (/\ pc' \in {"request", "narrated"}
               /\ narr'.design = narr.design
               /\ design' = design)]_vars

\* the key is set, the package is there and the call to the service raised
C16_Witness ==
    /\ pc = "narrated"
    /\ narr.api_key = "sk-test-key"
    /\ narr.importable
    /\ narr.service.outcome = "api_error"
    /\ narr.calls = 1
    /\ narr.result = <<>>

\* the municipalities the claim names, in lower case, and their zones
LowerName(m) ==
    CASE m \in {"Milano", "milano"} -> "milano"
      [] m \in {"Roma", "ROMA"}     -> "roma"
      [] m = "Palermo"              -> "palermo"
      [] m = "Aosta"                -> "aosta"
      [] m = "L'Aquila"             -> "l'aquila"
      [] m = "Catanzaro"            -> "catanzaro"
      [] m = "Cagliari"             -> "cagliari"
      [] OTHER                      -> m

ClaimedClimate ==
    ("milano" :> "E") @@ ("roma" :> "D") @@ ("palermo" :> "B") @@ ("aosta" :> "F")

ClaimedSeismic ==
    ("l'aquila" :> 1) @@ ("milano" :> 3) @@ ("catanzaro" :> 1) @@ ("cagliari" :> 4)

\* C18: get_climate_zone and get_seismic_zone, called with a known municipality
\* alone (no region) in any letter case, return that municipality's zone
\* (Milano -> E and 3, Roma -> D, Palermo -> B, Aosta -> F, L'Aquila -> 1,
\* Cagliari -> 4); for an unknown municipality they return the default of a
\* known region and otherwise "" and 0.
C18_MunicipalityZones ==
    pc = "zoned" =>
        LET m == LowerName(geo.municipality)
            known == (DOMAIN ClaimedClimate) \cup (DOMAIN ClaimedSeismic)
        IN  /\ geo.region = "" /\ m \in DOMAIN ClaimedClimate =>
                  geo.climate_zone = ClaimedClimate[m]
            /\ geo.region = "" /\ m \in DOMAIN ClaimedSeismic =>
                  geo.seismic_zone = ClaimedSeismic[m]
            /\ m \notin known =>
                  /\ geo.climate_zone =
                        IF geo.region \in DOMAIN RegionClimateDefaults
                        THEN RegionClimateDefaults[geo.region] ELSE ""
                  /\ geo.seismic_zone =
                        IF geo.region \in DOMAIN RegionSeismicDefaults
                        THEN RegionSeismicDefaults[geo.region] ELSE 0

\* the orientation block (lines 117-129) of the running design call is over
Oriented == pc \in {"sizing", "selfcons", "economics", "done", "raised"}

OrientationNotes == { i \in DOMAIN notes : notes[i].kind = "orientation" }

\* C21: the correction factor is exactly 1.0, with no orientation note, when
\* neither roof_tilt nor roof_azimuth is supplied; otherwise it is
\* max(0.7, 1 - 0.003 * tilt_diff - 0.002 * azimuth_diff), hence within
\* [0.7, 1.0], and the orientation-loss note (naming (1 - factor) * 100 rounded
\* to an integer) is emitted if and only if the factor is < 0.85.
C21_CorrectionFactor ==
    Oriented =>
        LET cf == orient.correction_factor
            raw == FSub(FSub(One, R(3 * orient.tilt_diff[1], 1000 * orient.tilt_diff[2])),
                        R(2 * orient.azimuth_diff[1], 1000 * orient.azimuth_diff[2]))
        IN  /\ FLe(R(7, 10), cf) /\ FLe(cf, One)
            /\ Cardinality(OrientationNotes) <= 1
            /\ orient.effective_prod_per_kwp = FMul(prod_per_kwp, cf)
            /\ IF roof_tilt = None /\ roof_azimuth = None
               THEN cf = One /\ OrientationNotes = {}
               ELSE /\ cf = (IF FLt(raw, R(7, 10)) THEN R(7, 10) ELSE raw)
                    /\ OrientationNotes # {} <=> FLt(cf, R(85, 100))
                    /\ \A i \in OrientationNotes :
                          /\ notes[i].x[2] = 1
                          /\ FLe(FAbs(FSub(notes[i].x, FMul(FSub(One, cf), <<100, 1>>))),
                                 <<1, 2>>)

\* a roof 20 degrees off in tilt and 90 in azimuth: factor 0.76, a 24 % loss noted
C21_Witness ==
    /\ Returned
    /\ roof_tilt # None /\ roof_azimuth # None
    /\ orient.correction_factor = R(76, 100)
    /\ \E i \in OrientationNotes : notes[i].x = <<24, 1>>

\* a roof exactly at the threshold: factor 0.85, no note
C21_WitnessThreshold ==
    /\ Returned
    /\ roof_azimuth = <<75, 1>>
    /\ orient.correction_factor = R(85, 100)
    /\ OrientationNotes = {}

\* the production block (lines 111-115) of the running design call is over
Produced == pc \in {"orientation", "sizing", "selfcons", "economics", "done", "raised"}

EstimateNotes == { i \in DOMAIN notes : notes[i].kind = "estimated" }

\* C22: the reference production per kWp is the analysis's
\* annual_production_per_kwp when that is > 0, with no estimate note; when it is
\* 0 it is annual_irradiation * performance_ratio (of the settings in force) and
\* the production-estimated note is emitted; the note is present if and only if
\* the substitution happened.
C22_ReferenceProduction ==
    Produced =>
        LET sd == analysis.solar_data
        IN  /\ Cardinality(EstimateNotes) <= 1
            /\ sd.annual_production_per_kwp[1] > 0 =>
                  /\ prod_per_kwp = sd.annual_production_per_kwp
                  /\ EstimateNotes = {}
            /\ sd.annual_production_per_kwp[1] = 0 =>
                  /\ prod_per_kwp =
                        R(sd.annual_irradiation[1] * settings.default_performance_ratio[1],
                          sd.annual_irradiation[2] * settings.default_performance_ratio[2])
                  /\ EstimateNotes = {1}
            /\ EstimateNotes # {} <=> ~ (sd.annual_production_per_kwp[1] > 0)
            /\ Returned => design[1].notes = notes

\* 1500 kWh/m2 of irradiation at a performance ratio of 0.75 stand in for the
\* missing production figure
C22_Witness ==
    /\ Returned
    /\ analysis.solar_data.annual_production_per_kwp = Zero
    /\ settings.default_performance_ratio = R(3, 4)
    /\ prod_per_kwp = <<1125, 1>>
    /\ design[1].notes[1].kind = "estimated"

\* 0.9 * annual_consumption / effective_production_per_kwp of the running call
\* (the divisor is nonzero once the sizing has run)
NinetyPercentTarget ==
    R(9 * annual_consumption_kwh[1] * orient.effective_prod_per_kwp[2],
      10 * annual_consumption_kwh[2] * orient.effective_prod_per_kwp[1])

\* the exact quotient target_kwp * 1000 / module.power_wp
PanelQuotient ==
    R(sizing.target_kwp[1] * 1000 * module.power_wp[2],
      sizing.target_kwp[2] * module.power_wp[1])

\* C23: target_kwp = 0.9 * annual_consumption / effective_production_per_kwp,
\* clamped by the roof; num_panels = max(1, ceil(target_kwp * 1000 / power_wp)),
\* so actual_kwp is >= the clamped target and exceeds it by less than one
\* module's power unless the one-panel floor applies; production 1200 kWh/kWp,
\* consumption 4500 kWh, roof 35 m2 and the generic 440 Wp module give 8 panels,
\* 3.52 kWp and 4224 kWh.
C23_SizingRoundsUp ==
    Sized =>
        LET q == PanelQuotient
            c == -((-q[1]) \div q[2])
        IN  /\ sizing.target_kwp0 = NinetyPercentTarget
            /\ sizing.target_kwp =
                  IF FLt(sizing.max_kwp_by_area, sizing.target_kwp0)
                  THEN sizing.max_kwp_by_area ELSE sizing.target_kwp0
            /\ sizing.num_panels = IF c < 1 THEN 1 ELSE c
            /\ sizing.actual_kwp =
                  R(sizing.num_panels * module.power_wp[1], 1000 * module.power_wp[2])
            /\ FLe(sizing.target_kwp, sizing.actual_kwp)
            /\ c >= 1 =>
                  FLt(FSub(sizing.actual_kwp, sizing.target_kwp),
                      R(module.power_wp[1], 1000 * module.power_wp[2]))
            /\ (/\ prod_per_kwp = <<1200, 1>> /\ orient.correction_factor = One
                /\ annual_consumption_kwh = <<4500, 1>> /\ roof_area_m2 = <<35, 1>>
                /\ module = GenericModule)
               => /\ sizing.num_panels = 8
                  /\ sizing.actual_kwp = R(352, 100)
                  /\ sizing.estimated_production = <<4224, 1>>

\* the number of whole modules that fit on the roof of the running call
ModulesThatFit ==
    (roof_area_m2[1] * module.area_m2[2]) \div (roof_area_m2[2] * module.area_m2[1])

\* C24: num_panels <= max(1, floor(roof_area_m2 / module.area_m2)) in every
\* design: a roof smaller than one module yields exactly one panel, and a roof
\* that fits at least one module is never over-filled.
C24_RoofNotOverfilled ==
    Sized =>
        /\ sizing.num_panels <= (IF ModulesThatFit < 1 THEN 1 ELSE ModulesThatFit)
        /\ ModulesThatFit = 0 => sizing.num_panels = 1
        /\ Returned => design[1].num_panels = sizing.num_panels

\* x is a with two decimal places
TwoDecimalsOf(x, a) ==
    /\ 100 % x[2] = 0
    /\ FLe(FAbs(FSub(x, a)), <<1, 200>>)

\* C25: for actual_kwp <= 500 the tax deduction is min(0.5 * total_cost, 96000)
\* and annual_deduction is a tenth of it; for actual_kwp > 500 both are 0;
\* effective_cost = total_cost - deduction_total and incentive_value =
\* deduction_total + annual_exported * tariff * 25 use the deduction after that
\* zeroing; 25 kWp at 1500 EUR/kWp give total_cost 37500, deduction 18750 and
\* tariff 0.04.
C25_TaxDeduction ==
    Returned =>
        LET kwp  == sizing.actual_kwp
            tc   == econ.total_cost
            half == R(tc[1], 2 * tc[2])
            ded  == econ.deduction_total
        IN  /\ tc = FMul(kwp, settings.default_cost_per_kwp)
            /\ FLe(kwp, <<500, 1>>) =>
                  /\ ded = (IF FLt(<<96000, 1>>, half) THEN <<96000, 1>> ELSE half)
                  /\ econ.annual_deduction = R(ded[1], 10 * ded[2])
            /\ FLt(<<500, 1>>, kwp) =>
                  /\ ded = Zero
                  /\ econ.annual_deduction = Zero
            /\ econ.effective_cost = FSub(tc, ded)
            /\ TwoDecimalsOf(design[1].economics.incentive_value_eur,
                             FAdd(ded, FMul(FMul(econ.annual_exported, econ.feed_in_tariff),
                                            <<25, 1>>)))
            /\ kwp = <<25, 1>> /\ settings.default_cost_per_kwp = <<1500, 1>> =>
                  /\ tc = <<37500, 1>>
                  /\ ded = <<18750, 1>>
                  /\ econ.feed_in_tariff = R(4, 100)

\* the example of the claim: 25 kWp at 1500 EUR/kWp
C25_Witness ==
    /\ Returned
    /\ sizing.actual_kwp = <<25, 1>>
    /\ econ.total_cost = <<37500, 1>>
    /\ econ.deduction_total = <<18750, 1>>
    /\ econ.effective_cost = <<18750, 1>>

\* a plant of at most 500 kWp whose deduction is capped at 96000 EUR
C25_WitnessCapped ==
    /\ Returned
    /\ FLe(sizing.actual_kwp, <<500, 1>>)
    /\ FLt(<<192000, 1>>, econ.total_cost)
    /\ econ.deduction_total = <<96000, 1>>

\* a plant above 500 kWp: no deduction
C25_WitnessLarge ==
    /\ Returned
    /\ FLt(<<500, 1>>, sizing.actual_kwp)
    /\ econ.deduction_total = Zero
    /\ econ.effective_cost = econ.total_cost

\* what the claim says of a selection idx (0 = None) among the inverters invs
\* for the capacity kwp: if some inverter that passes the DC-input filter has
\* power_kw >= 0.9 * kwp, the selected one has power_kw >= 0.9 * kwp
AdequateAsClaimed(invs, kwp, idx) ==
    LET adequate(i) == FLe(R(9 * kwp[1], 10 * kwp[2]), invs[i].power_kw)
        survivors ==
            { i \in 1..Len(invs) :
                  FLe(R(8 * kwp[1], 10 * kwp[2]), invs[i].max_dc_power_kw) }
    IN  (\E i \in survivors : adequate(i)) => (idx # 0 /\ adequate(idx))

\* C26: _select_inverter returns an undersized inverter (power_kw < 0.9 *
\* system_kwp) only when no inverter that survives the DC-input filter has
\* power_kw >= 0.9 * system_kwp; whenever an adequately sized survivor exists,
\* the selected inverter is adequately sized.
C26_AdequateInverter ==
    /\ pc = "selected" => AdequateAsClaimed(catalog.inverters, sel.system_kwp, sel.result)
    /\ pc \in {"economics", "done"} =>
          AdequateAsClaimed(catalog.inverters, sizing.actual_kwp, inverter)

\* C27: a design produced through SolarSpec(settings).design(...) is computed
\* with the electricity price, the cost per kWp and the performance ratio of
\* the Settings held by that SolarSpec instance.
C27_InstanceSettings ==
    solarspec.method = "design" =>
        /\ pc # "idle" => settings = solarspec.settings
        /\ Returned =>
              /\ design[1].performance_ratio = solarspec.settings.default_performance_ratio
              /\ design[1].economics.cost_per_kwp = solarspec.settings.default_cost_per_kwp
              /\ econ.total_cost =
                    FMul(sizing.actual_kwp, solarspec.settings.default_cost_per_kwp)

\* C28: SolarSpec.analyze gives the site the climate-zone letter and the
\* seismic-zone integer of the region-default tables whenever the region of the
\* geocoded location is in those tables (a location in Lombardia gets 'E' and
\* 3); the site gets '' and 0 only when the region is unknown.
C28_AnalyzeZones ==
    solarspec.result # None =>
        LET site == solarspec.result[1].site
            region == solarspec.location.region
        IN  /\ site.region = region
            /\ IF region \in DOMAIN RegionClimateDefaults
               THEN site.climate_zone = RegionClimateDefaults[region]
               ELSE site.climate_zone = ""
            /\ IF region \in DOMAIN RegionSeismicDefaults
               THEN site.seismic_zone = RegionSeismicDefaults[region]
               ELSE site.seismic_zone = 0
            /\ region = "Lombardia" => site.climate_zone = "E" /\ site.seismic_zone = 3

\* a line that is a section title followed by a colon (and possibly by text)
TitleLine(line) ==
    \E k \in DOMAIN SectionMap :
        StartsWith(Upper(Strip(line)), SectionMap[k][1] \o <<":">>)

\* a line that consists only of the k-th section title and a colon
HeaderOnly(line, k) == Strip(line) = SectionMap[k][1] \o <<":">>

\* a line of body text: not blank and not a title line
BodyLine(line) == Strip(line) # <<>> /\ ~ TitleLine(line)

\* C29: in _parse_sections, when a header line consists only of a section
\* title and a colon (the title DIMENSIONAMENTO DELL'IMPIANTO included), the
\* text stored for that section starts with the first body line after the
\* header and contains no part of the header line; and a body line is never
\* taken for a header unless it is one of the section titles.
C29_HeaderLines ==
    pc = "parsed" =>
        LET lines == SplitLines(parsed.text, <<>>)
        IN  /\ \A i \in 1..(Len(lines) - 1) : \A k \in DOMAIN SectionMap :
                  HeaderOnly(lines[i], k) /\ BodyLine(lines[i + 1]) =>
                      /\ SectionMap[k][2] \in DOMAIN parsed.sections
                      /\ StartsWith(parsed.sections[SectionMap[k][2]], Strip(lines[i + 1]))
            /\ \A i \in 1..Len(lines) :
                  BodyLine(lines[i]) => MatchedHeader(Strip(lines[i])) = 0

\* C30: POST /api/narrative and POST /api/preview with a geocodable address
\* and no API key complete with status 200 (an empty narrative with available
\* = false, the HTML preview without narrative sections); the absence of
\* narrative generation is never reported as a server error.
C30_NarrativeOptional ==
    (/\ pc = "answered"
     /\ http.request.endpoint \in {"/api/narrative", "/api/preview"}
     /\ http.request.api_key = ""
     /\ http.env.geocoder = "found"
     /\ http.env.pvgis = "ok"
     /\ http.env.sizing = "ok")
    => /\ http.raised = NoException
       /\ http.status = 200

\* C20: every POST endpoint of the HTTP API answers with status 400 when the
\* processing raises ValueError (address not geocodable, unsupported document
\* format) and with status 500 for any other exception; no exception leaves
\* the handler unmapped.
C20_ErrorStatus ==
    /\ pc = "answered" =>
          /\ http.raised \in ValueErrors => http.status = 400
          /\ http.raised \notin ValueErrors \cup {NoException} => http.status = 500
          /\ http.status = 200 <=> http.raised = NoException
          /\ http.env.geocoder = "not_found" => http.status = 400
          /\ (/\ http.request.endpoint = "/api/generate"
              /\ http.request.format \notin {"docx", "pdf"}
              /\ http.env.geocoder = "found" /\ http.env.pvgis = "ok"
              /\ http.env.sizing = "ok") => http.status = 400
    /\ pc = "raised" => http = BlankHttp

\* a document is asked for in a format that is neither docx nor pdf
C20_Witness ==
    /\ pc = "answered"
    /\ http.request = [endpoint |-> "/api/generate", format |-> "txt", api_key |-> ""]
    /\ http.raised = "ValueError"
    /\ http.status = 400

====
